---- MODULE Spec2Model ----
(***************************************************************************)
(* Model of CoverageReportParser (src/src/parser.py): parse() and the      *)
(* line-oriented state machine of _extract_covergroups, followed by the    *)
(* two flattening traversals.                                              *)
(*                                                                         *)
(* Conventions                                                             *)
(*  - Python None is the empty tuple <<>>, an object x is <<x>>.           *)
(*  - Text captured by a regex group is a tuple of one-character strings,  *)
(*    so lower(), substring tests, \d+ and split('x') are computed.        *)
(*  - A float is an exact rational <<numerator, denominator>>; rounding is *)
(*    not modelled.                                                        *)
(*  - A report line is the record of the fields the regular expressions    *)
(*    of __init__ look for; the *_pattern operators decide the match.      *)
(*  - The field "line" of a Bin, Coverpoint, CrossCoverage and Covergroup  *)
(*    is history: the 0-based index of the input line that created it.     *)
(*    visited, absorbed and opened are history variables as well.          *)
(***************************************************************************)
EXTENDS Integers, Sequences, FiniteSets, TLC

\* Longest input, in lines, of the general specification.
MaxLines == 4

None == <<>>
Some(x) == <<x>>

----------------------------------------------------------------------------
(* Text helpers *)

Digits == {"0", "1", "2", "3", "4", "5", "6", "7", "8", "9"}

DigitVal(c) ==
  CASE c = "0" -> 0 [] c = "1" -> 1 [] c = "2" -> 2 [] c = "3" -> 3
    [] c = "4" -> 4 [] c = "5" -> 5 [] c = "6" -> 6 [] c = "7" -> 7
    [] c = "8" -> 8 [] c = "9" -> 9

\* regex \d+ against a whole token
IsDigits(tok) == Len(tok) > 0 /\ \A k \in 1..Len(tok) : tok[k] \in Digits

RECURSIVE DecimalValue(_)
DecimalValue(tok) ==
  IF tok = <<>> THEN 0
  ELSE 10 * DecimalValue(SubSeq(tok, 1, Len(tok) - 1)) + DigitVal(tok[Len(tok)])

\* int(s): the value, or None when Python raises ValueError
int(tok) == IF IsDigits(tok) THEN Some(DecimalValue(tok)) ELSE None

\* float(s) for the digit tokens the percentage groups capture
float(tok) == IF IsDigits(tok) THEN Some(<<DecimalValue(tok), 1>>) ELSE None

UpperToLower ==
  [c \in {"C", "O", "V", "E", "R", "D", "H", "I", "T", "U", "N", "G", "M", "S"} |->
     CASE c = "C" -> "c" [] c = "O" -> "o" [] c = "V" -> "v" [] c = "E" -> "e"
       [] c = "R" -> "r" [] c = "D" -> "d" [] c = "H" -> "h" [] c = "I" -> "i"
       [] c = "T" -> "t" [] c = "U" -> "u" [] c = "N" -> "n" [] c = "G" -> "g"
       [] c = "M" -> "m" [] c = "S" -> "s"]

\* str.lower()
lower(s) ==
  [k \in 1..Len(s) |-> IF s[k] \in DOMAIN UpperToLower THEN UpperToLower[s[k]] ELSE s[k]]

\* Python's "pat in s"
Contains(pat, s) ==
  \E k \in 0..(Len(s) - Len(pat)) : SubSeq(s, k + 1, k + Len(pat)) = pat

RECURSIVE lstrip(_)
lstrip(s) == IF s /= <<>> /\ Head(s) = " " THEN lstrip(Tail(s)) ELSE s

RECURSIVE rstrip(_)
rstrip(s) ==
  IF s /= <<>> /\ s[Len(s)] = " " THEN rstrip(SubSeq(s, 1, Len(s) - 1)) ELSE s

\* str.strip()
strip(s) == rstrip(lstrip(s))

\* str.split('x'): cur is the piece being read, acc the finished pieces
RECURSIVE SplitX(_, _, _)
SplitX(s, cur, acc) ==
  IF s = <<>> THEN Append(acc, cur)
  ELSE IF Head(s) = "x" THEN SplitX(Tail(s), <<>>, Append(acc, cur))
  ELSE SplitX(Tail(s), Append(cur, Head(s)), acc)

split_x(s) == SplitX(s, <<>>, <<>>)

\* Exact rational arithmetic standing for float arithmetic
RatDiv(a, b) == <<a, b>>
RatMulInt(r, n) == <<r[1] * n, r[2]>>
Zero == <<0, 1>>

----------------------------------------------------------------------------
(* Report lines *)

\* The text of one line, as the fields the patterns of __init__ search for:
\*   design   the text after "Design :", if the line has it
\*   keyword  the line contains 'Overall Coverage' or 'Total Coverage'
\*   percent  the number of the first "<number> %" of the line
\*   cg, cp   the text after "Covergroup :" / "Coverpoint :"
\*   bin      "Bin : <name> - Hits : <hits> - Status : <status>"
\*   cross    "Cross : <name> - Coverage : <pct> %"
\* each None when the line has no such text.
Blank ==
  [design |-> None, keyword |-> FALSE, percent |-> None, cg |-> None,
   cp |-> None, bin |-> None, cross |-> None]

DesignLine == [Blank EXCEPT !.design = Some(<<"D", " ">>)]
OverallLine == [Blank EXCEPT !.keyword = TRUE, !.percent = Some(<<"6", "0">>)]
CovergroupLine == [Blank EXCEPT !.cg = Some(<<"g">>)]
CoverpointLine == [Blank EXCEPT !.cp = Some(<<"p", " ">>)]
BinText(name, hits, status) == [name |-> name, hits |-> hits, status |-> status]
BinLine(hits, status) == [Blank EXCEPT !.bin = Some(BinText(<<"b">>, hits, status))]
CrossText == [name |-> <<"p", " ", "x", " ", "q">>, pct |-> <<"5", "0">>]
CrossLine == [Blank EXCEPT !.cross = Some(CrossText), !.percent = Some(<<"5", "0">>)]
\* "Covergroup: g Coverpoint: p" matches both header patterns
CovergroupCoverpointLine ==
  [Blank EXCEPT !.cg = Some(<<"g", " ", "C", ":", "p">>), !.cp = Some(<<"p">>)]

W_covered == <<"C", "o", "v", "e", "r", "e", "d">>
W_uncovered == <<"U", "n", "c", "o", "v", "e", "r", "e", "d">>
W_ignored == <<"i", "g", "n", "o", "r", "e", "d">>
W_miss == <<"m", "i", "s", "s">>

\* The lines the general specification builds its inputs from.
LineSet ==
  { Blank, DesignLine, OverallLine, CovergroupLine, CoverpointLine,
    CovergroupCoverpointLine, CrossLine,
    BinLine(<<"3">>, W_covered), BinLine(<<"0">>, W_uncovered),
    BinLine(<<"0">>, W_ignored), BinLine(<<"0">>, W_miss),
    BinLine(<<"a", "b", "c">>, W_covered) }

RECURSIVE SeqsUpTo(_, _)
SeqsUpTo(S, n) ==
  IF n = 0 THEN {<<>>}
  ELSE LET shorter == SeqsUpTo(S, n - 1)
       IN shorter \cup {Append(s, x) : s \in {t \in shorter : Len(t) = n - 1}, x \in S}

\* report_text.split('\n') never returns an empty list
Inputs == {ls \in SeqsUpTo(LineSet, MaxLines) : Len(ls) >= 1}

----------------------------------------------------------------------------
(* Patterns: the match object of pattern.search(line), or None *)

design_name_pattern(line) == line.design

coverage_percentage_pattern(line) ==
  IF line.percent /= None /\ IsDigits(line.percent[1]) THEN line.percent ELSE None

covergroup_pattern(line) == line.cg

coverpoint_pattern(line) == line.cp

\* group 2 as (\w+): any hit count matches
bin_pattern_any_hits(line) == line.bin

\* group 2 is (\d+): a line whose hit count is not a number does not match
bin_pattern(line) ==
  IF line.bin /= None /\ IsDigits(line.bin[1].hits) THEN line.bin ELSE None

cross_pattern(line) ==
  IF line.cross /= None /\ IsDigits(line.cross[1].pct) THEN line.cross ELSE None

----------------------------------------------------------------------------
(* Data classes *)

COVERED == "covered"
UNCOVERED == "uncovered"
IGNORED == "ignored"
CoverageStatus == {COVERED, UNCOVERED, IGNORED}

Bin(name, hit_count, status, line) ==
  [name |-> name, hit_count |-> hit_count, status |-> status, goal |-> None,
   line |-> line]

Coverpoint(name, line) ==
  [name |-> name, bins |-> <<>>, coverage_percentage |-> Zero, total_bins |-> 0,
   covered_bins |-> 0, line |-> line]

CrossCoverage(name, coverpoints, bins, coverage_percentage, total_bins, covered_bins, line) ==
  [name |-> name, coverpoints |-> coverpoints, bins |-> bins,
   coverage_percentage |-> coverage_percentage, total_bins |-> total_bins,
   covered_bins |-> covered_bins, line |-> line]

Covergroup(name, line) ==
  [name |-> name, coverpoints |-> <<>>, cross_coverage |-> <<>>,
   coverage_percentage |-> Zero, total_bins |-> 0, covered_bins |-> 0,
   line |-> line]

\* sum(1 for b in bins if b.status == CoverageStatus.COVERED)
CountCovered(bins) == Len(SelectSeq(bins, LAMBDA b : b.status = COVERED))

----------------------------------------------------------------------------
(* Status classification *)

S_covered == <<"c", "o", "v", "e", "r", "e", "d">>
S_cover == <<"c", "o", "v", "e", "r">>
S_hit == <<"h", "i", "t">>
S_ignore == <<"i", "g", "n", "o", "r", "e">>

\* 'cover' in status_str in place of status_str == 'covered'
CoverpointBinStatusContains(status_str) ==
  IF Contains(S_cover, status_str) \/ Contains(S_hit, status_str) THEN COVERED
  ELSE IF Contains(S_ignore, status_str) THEN IGNORED
  ELSE UNCOVERED

\* parser.py 166-170: the status of a bin of a coverpoint
CoverpointBinStatus(status_str) ==
  IF status_str = S_covered \/ Contains(S_hit, status_str) THEN COVERED
  ELSE IF Contains(S_ignore, status_str) THEN IGNORED
  ELSE UNCOVERED

\* parser.py 198-202: the status of a bin of a cross
CrossBinStatus(status_str) ==
  IF Contains(S_cover, status_str) \/ Contains(S_hit, status_str) THEN COVERED
  ELSE IF Contains(S_ignore, status_str) THEN IGNORED
  ELSE UNCOVERED

----------------------------------------------------------------------------
(* State *)

VARIABLES
  lines,               \* report_text.split('\n')
  pc,                  \* position in parse()
  design_name,         \* None until _extract_design_name has run
  overall_coverage,    \* None until _extract_overall_coverage has run
  covergroups,         \* the list _extract_covergroups builds
  current_covergroup,
  current_coverpoint,
  i,                   \* the line cursor of _extract_covergroups, 0-based
  uncovered_bins,
  uncovered_crosses,
  report,              \* the CoverageReport parse returns, None before
  visited,             \* history: the cursor values the outer loop has processed
  absorbed,            \* history: the indices the cross loop has consumed
  opened,              \* history: per line index, the coverpoint a header on
                       \* that line opened (its covergroup's line, its bins)
  prioritizer,         \* the Prioritizer object, None before __init__
  suggestions,         \* the list of TestSuggestion given to prioritize/predict
  sorted_suggestions,  \* the list prioritize returns, None before
  prediction           \* the CoveragePrediction predict returns, None before

vars ==
  <<lines, pc, design_name, overall_coverage, covergroups, current_covergroup,
    current_coverpoint, i, uncovered_bins, uncovered_crosses, report, visited,
    absorbed, opened, prioritizer, suggestions, sorted_suggestions, prediction>>

\* the variables of the prioritizer and the predictor
rank_vars == <<prioritizer, suggestions, sorted_suggestions, prediction>>

\* the variables of the parser other than pc and report
parse_vars ==
  <<lines, design_name, overall_coverage, covergroups, current_covergroup,
    current_coverpoint, i, uncovered_bins, uncovered_crosses, visited, absorbed,
    opened>>

\* the state of parse() before its first statement, for the given lines
Start(ls) ==
  /\ lines = ls
  /\ pc = "design_name"
  /\ design_name = None
  /\ overall_coverage = None
  /\ covergroups = <<>>
  /\ current_covergroup = None
  /\ current_coverpoint = None
  /\ i = 0
  /\ uncovered_bins = <<>>
  /\ uncovered_crosses = <<>>
  /\ report = None
  /\ visited = <<>>
  /\ absorbed = {}
  /\ opened = [k \in 0..(Len(ls) - 1) |-> None]
  /\ prioritizer = None
  /\ suggestions = <<>>
  /\ sorted_suggestions = None
  /\ prediction = None

Init == \E ls \in Inputs : Start(ls)

----------------------------------------------------------------------------
(* parse: design name and overall coverage *)

UnknownDesign == <<"U", "n", "k", "n", "o", "w", "n", " ", "D", "e", "s", "i", "g", "n">>

RECURSIVE FirstDesignName(_)
FirstDesignName(ls) ==
  IF ls = <<>> THEN UnknownDesign
  ELSE IF design_name_pattern(Head(ls)) /= None
       THEN strip(design_name_pattern(Head(ls))[1])
       ELSE FirstDesignName(Tail(ls))

RECURSIVE FirstOverallCoverage(_)
FirstOverallCoverage(ls) ==
  IF ls = <<>> THEN Some(Zero)
  ELSE IF Head(ls).keyword /\ coverage_percentage_pattern(Head(ls)) /= None
       THEN float(coverage_percentage_pattern(Head(ls))[1])
       ELSE FirstOverallCoverage(Tail(ls))

_extract_design_name ==
  /\ pc = "design_name"
  /\ design_name' = Some(FirstDesignName(lines))
  /\ pc' = "overall_coverage"
  /\ UNCHANGED <<lines, overall_coverage, covergroups, current_covergroup,
                 current_coverpoint, i, uncovered_bins, uncovered_crosses,
                 report, visited, absorbed, opened>>
  /\ UNCHANGED rank_vars

\* float() of a token that is not a number raises: pc becomes "raised"
_extract_overall_coverage ==
  /\ pc = "overall_coverage"
  /\ LET v == FirstOverallCoverage(lines)
     IN IF v = None
        THEN pc' = "raised" /\ UNCHANGED overall_coverage
        ELSE pc' = "covergroups" /\ overall_coverage' = v
  /\ UNCHANGED <<lines, design_name, covergroups, current_covergroup,
                 current_coverpoint, i, uncovered_bins, uncovered_crosses,
                 report, visited, absorbed, opened>>
  /\ UNCHANGED rank_vars

----------------------------------------------------------------------------
(* _extract_covergroups: one iteration of "while i < len(lines)"           *)
(* The locals of the function are the record st; raised is set when a      *)
(* conversion raises, seen collects the indices the cross loop consumes.   *)

Locals ==
  [covergroups |-> covergroups, current_covergroup |-> current_covergroup,
   current_coverpoint |-> current_coverpoint, i |-> i, raised |-> FALSE,
   seen |-> {}]

\* a Covergroup header that leaves the open coverpoint open
CheckCovergroupKeepsCoverpoint(st, line) ==
  LET covergroup_match == covergroup_pattern(line) IN
  IF covergroup_match /= None
  THEN [st EXCEPT
          !.covergroups = IF st.current_covergroup /= None
                          THEN Append(@, st.current_covergroup[1])
                          ELSE @,
          !.current_covergroup = Some(Covergroup(strip(covergroup_match[1]), st.i))]
  ELSE st

\* parser.py 131-144
CheckCovergroup(st, line) ==
  LET covergroup_match == covergroup_pattern(line) IN
  IF covergroup_match /= None
  THEN [st EXCEPT
          !.covergroups = IF st.current_covergroup /= None
                          THEN Append(@, st.current_covergroup[1])
                          ELSE @,
          !.current_covergroup = Some(Covergroup(strip(covergroup_match[1]), st.i)),
          !.current_coverpoint = None]
  ELSE st

\* parser.py 146-157
CheckCoverpoint(st, line) ==
  LET coverpoint_match == coverpoint_pattern(line) IN
  IF coverpoint_match /= None /\ st.current_covergroup /= None
  THEN [st EXCEPT
          !.current_covergroup =
             IF st.current_coverpoint /= None
             THEN Some([@[1] EXCEPT !.coverpoints = Append(@, st.current_coverpoint[1])])
             ELSE @,
          !.current_coverpoint = Some(Coverpoint(strip(coverpoint_match[1]), st.i))]
  ELSE st

\* parser.py 159-177
CheckBin(st, line) ==
  LET bin_match == bin_pattern(line) IN
  IF bin_match /= None /\ st.current_coverpoint /= None
  THEN LET bin_name == strip(bin_match[1].name)
           hit_count == int(bin_match[1].hits)
           status_str == lower(strip(bin_match[1].status))
       IN IF hit_count = None
          THEN [st EXCEPT !.raised = TRUE]
          ELSE [st EXCEPT !.current_coverpoint =
                  Some([@[1] EXCEPT !.bins =
                    Append(@, Bin(bin_name, hit_count[1],
                                  CoverpointBinStatus(status_str), st.i))])]
  ELSE st

\* parser.py 189-209: the loop that collects the bins of a cross, entered with
\* the cursor j; returns the cursor it stops at, the bins, and whether int() raised
RECURSIVE AbsorbCrossBins(_, _, _)
AbsorbCrossBins(j, cross_bins, seen) ==
  IF /\ j < Len(lines)
     /\ covergroup_pattern(lines[j + 1]) = None
     /\ coverpoint_pattern(lines[j + 1]) = None
  THEN LET bin_match == bin_pattern(lines[j + 1]) IN
       IF bin_match /= None
       THEN LET bin_name == strip(bin_match[1].name)
                hit_count == int(bin_match[1].hits)
                status_str == lower(strip(bin_match[1].status))
            IN IF hit_count = None
               THEN [i |-> j, bins |-> cross_bins, seen |-> seen, raised |-> TRUE]
               ELSE AbsorbCrossBins(j + 1,
                      Append(cross_bins,
                             Bin(bin_name, hit_count[1], CrossBinStatus(status_str), j)),
                      seen \cup {j})
       ELSE AbsorbCrossBins(j + 1, cross_bins, seen \cup {j})
  ELSE [i |-> j, bins |-> cross_bins, seen |-> seen, raised |-> FALSE]

\* the "i -= 1" of parser.py 210 left out
CursorAfterCrossNoStepBack(j) == j

\* parser.py 210: the cursor after the cross loop stopped at j
CursorAfterCross(j) == j - 1

\* the percentage of a cross computed from its bins
CrossCoveragePercentageOfBins(cross_coverage, total_cross_bins, covered_cross_bins) ==
  IF total_cross_bins > 0
  THEN RatMulInt(RatDiv(covered_cross_bins, total_cross_bins), 100)
  ELSE Zero

\* parser.py 183 and 219: the percentage stored in a cross is the number
\* captured from its header
CrossCoveragePercentage(cross_coverage, total_cross_bins, covered_cross_bins) ==
  cross_coverage

\* parser.py 179-223
CheckCross(st, line) ==
  LET cross_match == cross_pattern(line) IN
  IF cross_match /= None /\ st.current_covergroup /= None
  THEN LET cross_name == strip(cross_match[1].name)
           cross_coverage == float(cross_match[1].pct)
           split == split_x(cross_name)
           coverpoint_names == [k \in 1..Len(split) |-> strip(split[k])]
           loop == AbsorbCrossBins(st.i + 1, <<>>, {})
           total_cross_bins == Len(loop.bins)
           covered_cross_bins == CountCovered(loop.bins)
       IN IF cross_coverage = None \/ loop.raised
          THEN [st EXCEPT !.raised = TRUE]
          ELSE [st EXCEPT
                  !.i = CursorAfterCross(loop.i),
                  !.seen = loop.seen,
                  !.current_covergroup =
                     Some([@[1] EXCEPT !.cross_coverage =
                       Append(@, CrossCoverage(cross_name, coverpoint_names, loop.bins,
                                               CrossCoveragePercentage(
                                                 cross_coverage[1], total_cross_bins,
                                                 covered_cross_bins),
                                               total_cross_bins,
                                               covered_cross_bins, st.i))])]
  ELSE st

\* the derived fields left as constructed
WithStatisticsStale(cp) == cp

\* parser.py 227-230 and 236-239: the derived fields of a coverpoint
WithStatistics(cp) ==
  LET total == Len(cp.bins)
      covered == CountCovered(cp.bins)
  IN [cp EXCEPT !.total_bins = total,
                !.covered_bins = covered,
                !.coverage_percentage =
                   IF total > 0 THEN RatMulInt(RatDiv(covered, total), 100) ELSE @]

\* parser.py 225-230
UpdateStatistics(st) ==
  IF st.current_coverpoint /= None /\ st.i = Len(lines) - 1
  THEN [st EXCEPT !.current_coverpoint = Some(WithStatistics(@[1]))]
  ELSE st

\* the body of the loop for the line under the cursor; a step that follows a
\* raised exception is not run
LoopBody(st0) ==
  LET line == lines[st0.i + 1]
      st1 == CheckCovergroup(st0, line)
      st2 == CheckCoverpoint(st1, line)
      st3 == CheckBin(st2, line)
      st4 == IF st3.raised THEN st3 ELSE CheckCross(st3, line)
      st5 == IF st4.raised THEN st4 ELSE UpdateStatistics(st4)
  IN IF st5.raised THEN st5 ELSE [st5 EXCEPT !.i = @ + 1]

ProcessLine ==
  /\ pc = "covergroups"
  /\ i < Len(lines)
  /\ LET st == LoopBody(Locals) IN
       /\ pc' = IF st.raised THEN "raised" ELSE "covergroups"
       /\ covergroups' = st.covergroups
       /\ current_covergroup' = st.current_covergroup
       /\ current_coverpoint' = st.current_coverpoint
       /\ i' = st.i
       /\ visited' = Append(visited, i)
       /\ absorbed' = absorbed \cup st.seen
       /\ opened' = IF st.current_coverpoint /= None
                    THEN [opened EXCEPT ![st.current_coverpoint[1].line] =
                            Some([cg |-> st.current_covergroup[1].line,
                                  bins |-> st.current_coverpoint[1].bins])]
                    ELSE opened
  /\ UNCHANGED <<lines, design_name, overall_coverage, uncovered_bins,
                 uncovered_crosses, report>>
  /\ UNCHANGED rank_vars

\* parser.py 244-253: the derived fields of a covergroup
RECURSIVE Concat(_)
Concat(ss) == IF ss = <<>> THEN <<>> ELSE Head(ss) \o Concat(Tail(ss))

AllBins(cg) ==
  Concat([k \in 1..Len(cg.coverpoints) |-> cg.coverpoints[k].bins])
    \o Concat([k \in 1..Len(cg.cross_coverage) |-> cg.cross_coverage[k].bins])

WithGroupStatistics(cg) ==
  LET all_bins == AllBins(cg)
      total == Len(all_bins)
      covered == CountCovered(all_bins)
  IN [cg EXCEPT !.total_bins = total,
                !.covered_bins = covered,
                !.coverage_percentage =
                   IF total > 0 THEN RatMulInt(RatDiv(covered, total), 100) ELSE @]

\* parser.py 234-257: after the loop
Finalize ==
  /\ pc = "covergroups"
  /\ ~(i < Len(lines))
  /\ LET cg1 == IF current_coverpoint /= None /\ current_covergroup /= None
                THEN Some([current_covergroup[1] EXCEPT !.coverpoints =
                             Append(@, WithStatistics(current_coverpoint[1]))])
                ELSE current_covergroup
         cp1 == IF current_coverpoint /= None /\ current_covergroup /= None
                THEN Some(WithStatistics(current_coverpoint[1]))
                ELSE current_coverpoint
         cg2 == IF cg1 /= None THEN Some(WithGroupStatistics(cg1[1])) ELSE cg1
     IN /\ current_coverpoint' = cp1
        /\ current_covergroup' = cg2
        /\ covergroups' = IF cg2 /= None THEN Append(covergroups, cg2[1])
                          ELSE covergroups
  /\ pc' = "uncovered_bins"
  /\ UNCHANGED <<lines, design_name, overall_coverage, i, uncovered_bins,
                 uncovered_crosses, report, visited, absorbed, opened>>
  /\ UNCHANGED rank_vars

----------------------------------------------------------------------------
(* Flattening and the result of parse *)

\* every bin that is not Covered taken for Uncovered
IsNotCovered(bin_obj) == bin_obj.status /= COVERED

\* the test of parser.py 265 and 281
IsUncovered(bin_obj) == bin_obj.status = UNCOVERED

\* parser.py 266-272
BinContext(cg, cp, bin_obj) ==
  [covergroup |-> cg.name, coverpoint |-> cp.name, bin |-> bin_obj.name,
   hit_count |-> bin_obj.hit_count, coverage_percentage |-> cp.coverage_percentage,
   line |-> bin_obj.line]

\* parser.py 282-289
CrossContext(cg, cross, bin_obj) ==
  [covergroup |-> cg.name, cross |-> cross.name, coverpoints |-> cross.coverpoints,
   bin |-> bin_obj.name, hit_count |-> bin_obj.hit_count,
   coverage_percentage |-> cross.coverage_percentage, line |-> bin_obj.line]

\* parser.py 264-272: the records of one coverpoint
UncoveredOfCoverpoint(cg, cp) ==
  LET sel == SelectSeq(cp.bins, IsUncovered)
  IN [k \in 1..Len(sel) |-> BinContext(cg, cp, sel[k])]

\* parser.py 280-289: the records of one cross
UncoveredOfCross(cg, cross) ==
  LET sel == SelectSeq(cross.bins, IsUncovered)
  IN [k \in 1..Len(sel) |-> CrossContext(cg, cross, sel[k])]

\* parser.py 259-273
ExtractUncoveredBins(cgs) ==
  Concat([g \in 1..Len(cgs) |->
    Concat([c \in 1..Len(cgs[g].coverpoints) |->
      UncoveredOfCoverpoint(cgs[g], cgs[g].coverpoints[c])])])

\* parser.py 275-290
ExtractUncoveredCrosses(cgs) ==
  Concat([g \in 1..Len(cgs) |->
    Concat([c \in 1..Len(cgs[g].cross_coverage) |->
      UncoveredOfCross(cgs[g], cgs[g].cross_coverage[c])])])

_extract_uncovered_bins ==
  /\ pc = "uncovered_bins"
  /\ uncovered_bins' = ExtractUncoveredBins(covergroups)
  /\ pc' = "uncovered_crosses"
  /\ UNCHANGED <<lines, design_name, overall_coverage, covergroups,
                 current_covergroup, current_coverpoint, i, uncovered_crosses,
                 report, visited, absorbed, opened>>
  /\ UNCHANGED rank_vars

\* parser.py 94-102: the second traversal and the construction of the result
_extract_uncovered_crosses ==
  /\ pc = "uncovered_crosses"
  /\ uncovered_crosses' = ExtractUncoveredCrosses(covergroups)
  /\ report' = Some([design_name |-> design_name[1],
                     overall_coverage |-> overall_coverage[1],
                     covergroups |-> covergroups,
                     uncovered_bins |-> uncovered_bins,
                     uncovered_crosses |-> uncovered_crosses'])
  /\ pc' = "done"
  /\ UNCHANGED <<lines, design_name, overall_coverage, covergroups,
                 current_covergroup, current_coverpoint, i, uncovered_bins,
                 visited, absorbed, opened>>
  /\ UNCHANGED rank_vars

Next ==
  \/ _extract_design_name
  \/ _extract_overall_coverage
  \/ ProcessLine
  \/ Finalize
  \/ _extract_uncovered_bins
  \/ _extract_uncovered_crosses

Spec == Init /\ [][Next]_vars

----------------------------------------------------------------------------
(* Vocabulary of the properties *)

Done == pc = "done"

InLoop == pc = "covergroups"

\* the covergroups built so far, the open one last
GroupsNow ==
  covergroups \o (IF InLoop /\ current_covergroup /= None
                  THEN <<current_covergroup[1]>> ELSE <<>>)

Indices == 0..(Len(lines) - 1)

VisitedSet == {visited[k] : k \in 1..Len(visited)}

IsHeader(k) ==
  covergroup_pattern(lines[k + 1]) /= None \/ coverpoint_pattern(lines[k + 1]) /= None

Min(S) == CHOOSE x \in S : \A y \in S : x <= y
Max(S) == CHOOSE x \in S : \A y \in S : y <= x

\* the first Covergroup or Coverpoint header after line h, len(lines) if none
Terminator(h) == Min({j \in Indices : j > h /\ IsHeader(j)} \cup {Len(lines)})

\* the derived triad of obj is the one its bins determine
TriadOf(bins, obj) ==
  LET total == Len(bins)
      covered == Cardinality({k \in 1..Len(bins) : bins[k].status = COVERED})
  IN /\ obj.total_bins = total
     /\ obj.covered_bins = covered
     /\ IF total = 0 THEN obj.coverage_percentage[1] = 0
        ELSE obj.coverage_percentage[1] * total = 100 * covered * obj.coverage_percentage[2]

\* the source lines of a list of bins
BinLines(bins) == [k \in 1..Len(bins) |-> bins[k].line]

\* the coverpoint opened on line k is no longer the open one
Closed(k) ==
  ~InLoop \/ current_coverpoint = None \/ current_coverpoint[1].line /= k

\* the positions <<g, c>> of the coverpoints created by line k
PlacesOf(k) ==
  {gc \in {<<g, c>> : g \in 1..Len(GroupsNow), c \in Indices \cup {Len(lines)}} :
     /\ gc[2] \in 1..Len(GroupsNow[gc[1]].coverpoints)
     /\ GroupsNow[gc[1]].coverpoints[gc[2]].line = k}

----------------------------------------------------------------------------
(* Closing on headers *)

\* C1 (as claimed): a coverpoint that has been closed - by a Coverpoint
\* header, by a Covergroup header or by the end of the input - is exactly
\* once in the covergroup it was opened in, with the bins appended to it; in
\* particular a Covergroup header appends the open coverpoint to its
\* covergroup before the covergroup goes to the report.
C1_ClosedCoverpointKept ==
  \A k \in DOMAIN opened :
    (opened[k] /= None /\ Closed(k)) =>
      /\ Cardinality(PlacesOf(k)) = 1
      /\ \A gc \in PlacesOf(k) :
           /\ GroupsNow[gc[1]].line = opened[k][1].cg
           /\ GroupsNow[gc[1]].coverpoints[gc[2]].bins = opened[k][1].bins

\* C2 (as claimed): in the returned report every coverpoint carries the
\* triad of its bins: total_bins = len(bins), covered_bins = number of
\* Covered bins, coverage_percentage = 100*covered/total (0 without bins).
C2_CoverpointTriad ==
  Done =>
    \A g \in 1..Len(report[1].covergroups) :
      \A c \in 1..Len(report[1].covergroups[g].coverpoints) :
        LET cp == report[1].covergroups[g].coverpoints[c]
        IN TriadOf(cp.bins, cp)

\* all bins below a covergroup, those of its coverpoints then of its crosses
BinsBelow(cg) ==
  Concat([c \in 1..Len(cg.coverpoints) |-> cg.coverpoints[c].bins]
           \o [x \in 1..Len(cg.cross_coverage) |-> cg.cross_coverage[x].bins])

\* C3 (as claimed): in the returned report every covergroup carries the
\* triad of the union of the bins of its coverpoints and its crosses.
C3_CovergroupTriad ==
  Done =>
    \A g \in 1..Len(report[1].covergroups) :
      TriadOf(BinsBelow(report[1].covergroups[g]), report[1].covergroups[g])

----------------------------------------------------------------------------
(* Cross absorption *)

\* every cross built so far
CrossesNow ==
  UNION {{GroupsNow[g].cross_coverage[x] : x \in 1..Len(GroupsNow[g].cross_coverage)} :
           g \in 1..Len(GroupsNow)}

\* the source lines of every bin ever appended to a coverpoint
CoverpointBinLines ==
  UNION {{opened[k][1].bins[b].line : b \in 1..Len(opened[k][1].bins)} :
           k \in {n \in DOMAIN opened : opened[n] /= None}}

\* line v is a Cross header that the outer loop read with a covergroup open
CrossHeaderRead(v) ==
  /\ v \in VisitedSet
  /\ cross_pattern(lines[v + 1]) /= None
  /\ \E u \in VisitedSet : u <= v /\ covergroup_pattern(lines[u + 1]) /= None

StrictlyIncreasing(q) == \A a, b \in 1..Len(q) : a < b => q[a] < q[b]

\* C4: a Cross header read in an open covergroup makes a cross whose bins
\* are, in order, exactly the bin lines between the header and the next
\* Covergroup or Coverpoint header (or the end); none of these lines gives a
\* bin to a coverpoint or is read by the outer loop, and the outer loop
\* continues exactly at the terminating header.
C4_CrossAbsorbsFollowingBins ==
  /\ \A v \in Indices : CrossHeaderRead(v) => \E X \in CrossesNow : X.line = v
  /\ \A X \in CrossesNow :
       LET h == X.line
           t == Terminator(h)
           between == {j \in Indices : h < j /\ j < t}
       IN /\ StrictlyIncreasing(BinLines(X.bins))
          /\ {X.bins[k].line : k \in 1..Len(X.bins)} =
               {j \in between : bin_pattern(lines[j + 1]) /= None}
          /\ CoverpointBinLines \cap between = {}
          /\ VisitedSet \cap between = {}
          /\ between \subseteq absorbed
          /\ InLoop => i >= t
          /\ (t < Len(lines) /\ (~InLoop \/ i > t)) => t \in VisitedSet

\* C4 witness: the report is returned, a coverpoint was open when the Cross
\* header was read, the cross absorbed a bin, and the Coverpoint header that
\* ended the absorption opened a coverpoint.
C4_Witness ==
  /\ Done
  /\ \E X \in CrossesNow :
       /\ Len(X.bins) >= 1
       /\ Terminator(X.line) < Len(lines)
       /\ Terminator(X.line) \in VisitedSet
       /\ opened[Terminator(X.line)] /= None
       /\ \E k \in DOMAIN opened : k < X.line /\ opened[k] /= None

----------------------------------------------------------------------------
(* End of input *)

GroupHeaders == {k \in Indices : covergroup_pattern(lines[k + 1]) /= None}

\* the Coverpoint headers of the last covergroup
LastPointHeaders ==
  {k \in Indices : k >= Max(GroupHeaders) /\ coverpoint_pattern(lines[k + 1]) /= None}

\* C5: in the returned report the covergroup and the coverpoint that are open
\* at the end of the input appear exactly once, as the last covergroup and as
\* its last coverpoint, each with the triad of its bins.
C5_EndOfInputClosesOnce ==
  (Done /\ GroupHeaders /= {}) =>
    LET G == report[1].covergroups IN
    /\ Len(G) >= 1
    /\ G[Len(G)].line = Max(GroupHeaders)
    /\ Cardinality({g \in 1..Len(G) : G[g].line = Max(GroupHeaders)}) = 1
    /\ TriadOf(BinsBelow(G[Len(G)]), G[Len(G)])
    /\ LastPointHeaders /= {} =>
         LET cps == G[Len(G)].coverpoints
             P == Max(LastPointHeaders)
         IN /\ Len(cps) >= 1
            /\ cps[Len(cps)].line = P
            /\ Cardinality({c \in 1..Len(cps) : cps[c].line = P}) = 1
            /\ cps[Len(cps)].bins = opened[P][1].bins
            /\ TriadOf(cps[Len(cps)].bins, cps[Len(cps)])

\* C5 witness: the last coverpoint is returned with a Covered and a not
\* Covered bin, so its percentage is 50.
C5_Witness ==
  /\ Done
  /\ GroupHeaders /= {}
  /\ LastPointHeaders /= {}
  /\ LET G == report[1].covergroups
         cps == G[Len(G)].coverpoints
     IN /\ cps[Len(cps)].total_bins = 2
        /\ cps[Len(cps)].covered_bins = 1
        /\ G[Len(G)].total_bins = 2

----------------------------------------------------------------------------
(* Status words *)

\* Status words built from fragments: prefix, stem in three spellings, suffix
WordPrefixes == {<<>>, <<"u", "n">>, <<"U", "n">>, <<"d", "i", "s">>}
WordStems ==
  {<<"c", "o", "v", "e", "r">>, <<"C", "o", "v", "e", "r">>,
   <<"C", "O", "V", "E", "R">>, <<"h", "i", "t">>, <<"H", "I", "T">>,
   <<"i", "g", "n", "o", "r", "e">>, <<"m", "i", "s", "s">>}
WordSuffixes == {<<>>, <<"e", "d">>, <<"E", "D">>, <<"s">>}
StatusWords == {a \o b \o c : a \in WordPrefixes, b \in WordStems, c \in WordSuffixes}

\* One covergroup with a coverpoint and a cross, each followed by a bin line
\* with the same status word.
StatusInit ==
  \E w \in StatusWords :
    Start(<<CovergroupLine, CoverpointLine, BinLine(<<"1">>, w),
            CrossLine, BinLine(<<"1">>, w)>>)

StatusSpec == StatusInit /\ [][Next]_vars

\* the status word of the bin line that made bin_obj, as Python reads it
WordOf(bin_obj) == lower(strip(lines[bin_obj.line + 1].bin[1].status))

\* the bins of the coverpoints and of the crosses of the returned report
ReportCoverpointBins ==
  UNION {UNION {{cp.bins[b] : b \in 1..Len(cp.bins)} :
                  cp \in {report[1].covergroups[g].coverpoints[c] :
                            c \in 1..Len(report[1].covergroups[g].coverpoints)}} :
           g \in 1..Len(report[1].covergroups)}

ReportCrossBins ==
  UNION {UNION {{x.bins[b] : b \in 1..Len(x.bins)} :
                  x \in {report[1].covergroups[g].cross_coverage[c] :
                           c \in 1..Len(report[1].covergroups[g].cross_coverage)}} :
           g \in 1..Len(report[1].covergroups)}

\* the mapping of spec section 4.1, item 5
SpecifiedStatus(w) ==
  IF Contains(S_cover, w) \/ Contains(S_hit, w) THEN COVERED
  ELSE IF Contains(S_ignore, w) THEN IGNORED
  ELSE UNCOVERED

\* C6 (as claimed): a coverpoint bin is Covered when its lower-cased status
\* word contains "cover" or "hit", else Ignored when it contains "ignore",
\* else Uncovered.
C6_ContainsCoverIsCovered ==
  Done => \A b \in ReportCoverpointBins : b.status = SpecifiedStatus(WordOf(b))

\* C6 (amended): a coverpoint bin is Covered when its lower-cased status word
\* is exactly "covered" or contains "hit", else Ignored when it contains
\* "ignore", else Uncovered.
C6_EqualsCoveredIsCovered ==
  Done =>
    \A b \in ReportCoverpointBins :
      /\ b.status = COVERED <=> (WordOf(b) = S_covered \/ Contains(S_hit, WordOf(b)))
      /\ b.status = IGNORED <=>
           /\ ~(WordOf(b) = S_covered \/ Contains(S_hit, WordOf(b)))
           /\ Contains(S_ignore, WordOf(b))
      /\ b.status \in CoverageStatus

\* C6 witness: a coverpoint bin whose word contains "cover" without being
\* "covered" is returned Uncovered.
C6_Witness ==
  /\ Done
  /\ \E b \in ReportCoverpointBins :
       /\ Contains(S_cover, WordOf(b))
       /\ WordOf(b) /= S_covered
       /\ b.status = UNCOVERED

\* C7 (as claimed): a bin line absorbed into a cross gets the status the same
\* status word gets in a coverpoint.
C7_CrossStatusAsCoverpoint ==
  Done =>
    \A cb \in ReportCoverpointBins, xb \in ReportCrossBins :
      WordOf(cb) = WordOf(xb) => cb.status = xb.status

----------------------------------------------------------------------------
(* Flattened projections *)

Positions == (1..Len(lines)) \X (1..Len(lines)) \X (1..Len(lines))

\* positions <<g, c, b>> of the Uncovered bins below coverpoints
UncoveredCoverpointBins ==
  {t \in Positions :
     /\ t[1] <= Len(report[1].covergroups)
     /\ t[2] <= Len(report[1].covergroups[t[1]].coverpoints)
     /\ t[3] <= Len(report[1].covergroups[t[1]].coverpoints[t[2]].bins)
     /\ report[1].covergroups[t[1]].coverpoints[t[2]].bins[t[3]].status = UNCOVERED}

\* positions <<g, x, b>> of the Uncovered bins below crosses
UncoveredCrossBins ==
  {t \in Positions :
     /\ t[1] <= Len(report[1].covergroups)
     /\ t[2] <= Len(report[1].covergroups[t[1]].cross_coverage)
     /\ t[3] <= Len(report[1].covergroups[t[1]].cross_coverage[t[2]].bins)
     /\ report[1].covergroups[t[1]].cross_coverage[t[2]].bins[t[3]].status = UNCOVERED}

\* C8: the two projections of the returned report hold one record per
\* Uncovered bin of the tree - uncovered_bins those below coverpoints,
\* uncovered_crosses those below crosses - with the names and the
\* coverage_percentage of the containers.
C8_OneRecordPerUncoveredBin ==
  Done =>
    LET R == report[1] IN
    /\ Len(R.uncovered_bins) + Len(R.uncovered_crosses) =
         Cardinality(UncoveredCoverpointBins) + Cardinality(UncoveredCrossBins)
    /\ Len(R.uncovered_bins) = Cardinality(UncoveredCoverpointBins)
    /\ \A t \in UncoveredCoverpointBins :
         LET cg == R.covergroups[t[1]]
             cp == cg.coverpoints[t[2]]
             b == cp.bins[t[3]]
         IN Cardinality({k \in 1..Len(R.uncovered_bins) :
                           /\ R.uncovered_bins[k].line = b.line
                           /\ R.uncovered_bins[k].bin = b.name
                           /\ R.uncovered_bins[k].hit_count = b.hit_count
                           /\ R.uncovered_bins[k].covergroup = cg.name
                           /\ R.uncovered_bins[k].coverpoint = cp.name
                           /\ R.uncovered_bins[k].coverage_percentage =
                                cp.coverage_percentage}) = 1
    /\ \A t \in UncoveredCrossBins :
         LET cg == R.covergroups[t[1]]
             x == cg.cross_coverage[t[2]]
             b == x.bins[t[3]]
         IN Cardinality({k \in 1..Len(R.uncovered_crosses) :
                           /\ R.uncovered_crosses[k].line = b.line
                           /\ R.uncovered_crosses[k].bin = b.name
                           /\ R.uncovered_crosses[k].hit_count = b.hit_count
                           /\ R.uncovered_crosses[k].covergroup = cg.name
                           /\ R.uncovered_crosses[k].cross = x.name
                           /\ R.uncovered_crosses[k].coverage_percentage =
                                x.coverage_percentage}) = 1

\* C8 witness: a report with an Uncovered coverpoint bin, an Uncovered cross
\* bin and both projections filled.
C8_Witness ==
  /\ Done
  /\ Len(report[1].uncovered_bins) >= 1
  /\ Len(report[1].uncovered_crosses) >= 1

----------------------------------------------------------------------------
(* Tolerance *)

\* the line matches none of the four patterns of the hierarchy
Unrecognized(line) ==
  /\ covergroup_pattern(line) = None
  /\ coverpoint_pattern(line) = None
  /\ bin_pattern(line) = None
  /\ cross_pattern(line) = None

\* a line with the text of a bin whose hit count is not a number
MalformedBin(line) == line.bin /= None /\ ~IsDigits(line.bin[1].hits)

DesignLines == {k \in Indices : design_name_pattern(lines[k + 1]) /= None}

OverallLines ==
  {k \in Indices :
     lines[k + 1].keyword /\ coverage_percentage_pattern(lines[k + 1]) /= None}

\* the open coverpoint without its derived triad
OpenPoint(cp) ==
  IF cp = None THEN None
  ELSE Some([name |-> cp[1].name, bins |-> cp[1].bins, line |-> cp[1].line])

\* the outer loop reads an unrecognized line: the list of covergroups, the
\* open covergroup and the open coverpoint (its name and bins) stay as they
\* are and the cursor moves to the next line
SkipsUnrecognized ==
  (InLoop /\ i < Len(lines) /\ Unrecognized(lines[i + 1])) =>
    /\ covergroups' = covergroups
    /\ current_covergroup' = current_covergroup
    /\ OpenPoint(current_coverpoint') = OpenPoint(current_coverpoint)
    /\ i' = i + 1
    /\ pc' = pc

\* C9: parse raises no exception on any input; a line that matches no
\* pattern changes neither the covergroups nor which covergroup and
\* coverpoint are open nor their contents; the report has design_name
\* "Unknown Design" without a Design line and overall_coverage 0.0 without
\* an overall-coverage line.
C9_ParseNeverFails ==
  /\ [](pc /= "raised")
  /\ [](Done =>
          /\ report /= None
          /\ DesignLines = {} => report[1].design_name = UnknownDesign
          /\ OverallLines = {} => report[1].overall_coverage[1] = 0)
  /\ [][SkipsUnrecognized]_vars

\* C9 witness: a report returned for an input without Design and overall
\* lines in which a bin line with a malformed hit count and a blank line
\* were read while a coverpoint was open.
C9_Witness ==
  /\ Done
  /\ DesignLines = {}
  /\ OverallLines = {}
  /\ \E k, n \in VisitedSet :
       /\ MalformedBin(lines[k + 1])
       /\ lines[n + 1] = Blank
       /\ \E j \in DOMAIN opened : j < k /\ j < n /\ opened[j] /= None

\* C10 (as claimed): parse does not return a report for an input with a bin
\* line whose hit count is not a number; it reports a ParseError.
C10_MalformedHitsNotReturned ==
  (\E k \in Indices : MalformedBin(lines[k + 1])) => ~Done

----------------------------------------------------------------------------
(* Rational arithmetic for the scores: <<n, d>> with d > 0, kept reduced *)

Abs(n) == IF n < 0 THEN -n ELSE n

RECURSIVE GCD(_, _)
GCD(a, b) == IF b = 0 THEN a ELSE GCD(b, a % b)

Reduce(r) ==
  LET g == GCD(Abs(r[1]), r[2]) IN <<r[1] \div g, r[2] \div g>>

RatAdd(p, q) == Reduce(<<p[1] * q[2] + q[1] * p[2], p[2] * q[2]>>)
RatSub(p, q) == Reduce(<<p[1] * q[2] - q[1] * p[2], p[2] * q[2]>>)
RatMul(p, q) == Reduce(<<p[1] * q[1], p[2] * q[2]>>)
\* p / q for q > 0
RatQuot(p, q) == Reduce(<<p[1] * q[2], p[2] * q[1]>>)
RatLe(p, q) == p[1] * q[2] <= q[1] * p[2]
RatLt(p, q) == p[1] * q[2] < q[1] * p[2]
RatMin(p, q) == IF RatLe(p, q) THEN p ELSE q
RatMax(p, q) == IF RatLe(p, q) THEN q ELSE p
One == <<1, 1>>
Tenths(n) == Reduce(<<n, 10>>)

----------------------------------------------------------------------------
(* Suggestions *)

\* DifficultyLevel of src.llm_integration; UnknownLevel stands for any value
\* that is not one of the four levels
EASY == "easy"
MEDIUM == "medium"
HARD == "hard"
VERY_HARD == "very_hard"
UnknownLevel == "unknown"
DifficultyLevel == {EASY, MEDIUM, HARD, VERY_HARD}

\* TestSuggestion of src.llm_integration; id is history: the identity of the
\* object, its position in the list given to prioritize
TestSuggestion(uncovered_bin, difficulty, dependencies, estimated_time_hours, id) ==
  [uncovered_bin |-> uncovered_bin, difficulty |-> difficulty,
   dependencies |-> dependencies, estimated_time_hours |-> estimated_time_hours,
   priority_score |-> Zero, id |-> id]

\* dict.get(key, default) of a context record
Get(d, key, default) == IF key \in DOMAIN d THEN d[key] ELSE default

----------------------------------------------------------------------------
(* Prioritizer *)

\* an __init__ that stores three zeros when the sum is not positive
PrioritizerInitZeroing(coverage_impact_weight, difficulty_weight, dependency_weight) ==
  LET total_weight ==
        RatAdd(RatAdd(coverage_impact_weight, difficulty_weight), dependency_weight)
      given == <<coverage_impact_weight, difficulty_weight, dependency_weight>>
  IN IF RatLt(Zero, total_weight)
     THEN [coverage_impact_weight |-> RatQuot(coverage_impact_weight, total_weight),
           difficulty_weight |-> RatQuot(difficulty_weight, total_weight),
           dependency_weight |-> RatQuot(dependency_weight, total_weight),
           given |-> given]
     ELSE [coverage_impact_weight |-> Zero, difficulty_weight |-> Zero,
           dependency_weight |-> Zero, given |-> given]

\* prioritization.py 28-37, the object left by __init__; given is history
PrioritizerInit(coverage_impact_weight, difficulty_weight, dependency_weight) ==
  LET total_weight ==
        RatAdd(RatAdd(coverage_impact_weight, difficulty_weight), dependency_weight)
      given == <<coverage_impact_weight, difficulty_weight, dependency_weight>>
  IN IF RatLt(Zero, total_weight)
     THEN [coverage_impact_weight |-> RatQuot(coverage_impact_weight, total_weight),
           difficulty_weight |-> RatQuot(difficulty_weight, total_weight),
           dependency_weight |-> RatQuot(dependency_weight, total_weight),
           given |-> given]
     ELSE [coverage_impact_weight |-> coverage_impact_weight,
           difficulty_weight |-> difficulty_weight,
           dependency_weight |-> dependency_weight,
           given |-> given]

\* the return of prioritization.py 118 without the clamp
_calculate_coverage_impact_unclamped(suggestion) ==
  LET bin_info == suggestion.uncovered_bin
      coverpoint_coverage == RatQuot(Get(bin_info, "coverage_percentage", Zero), <<100, 1>>)
      impact == RatSub(One, coverpoint_coverage)
  IN IF "cross" \in DOMAIN bin_info \/ "coverpoints" \in DOMAIN bin_info
     THEN RatMin(One, RatMul(impact, <<12, 10>>))
     ELSE impact

\* prioritization.py 95-118
_calculate_coverage_impact(suggestion) ==
  LET bin_info == suggestion.uncovered_bin
      coverpoint_coverage == RatQuot(Get(bin_info, "coverage_percentage", Zero), <<100, 1>>)
      impact0 == RatSub(One, coverpoint_coverage)
      impact == IF "cross" \in DOMAIN bin_info \/ "coverpoints" \in DOMAIN bin_info
                THEN RatMin(One, RatMul(impact0, <<12, 10>>))
                ELSE impact0
  IN RatMin(One, RatMax(Zero, impact))

\* prioritization.py 120-140
_calculate_inverse_difficulty(suggestion) ==
  CASE suggestion.difficulty = EASY -> Tenths(10)
    [] suggestion.difficulty = MEDIUM -> Tenths(7)
    [] suggestion.difficulty = HARD -> Tenths(4)
    [] suggestion.difficulty = VERY_HARD -> Tenths(2)
    [] OTHER -> Tenths(5)

\* prioritization.py 142-153
_calculate_dependency_score(suggestion) ==
  LET num_dependencies == Len(suggestion.dependencies)
  IN RatQuot(One, <<1 + num_dependencies, 1>>)

\* prioritization.py 62-93
_calculate_priority_score(self, suggestion) ==
  RatAdd(RatAdd(RatMul(self.coverage_impact_weight, _calculate_coverage_impact(suggestion)),
                RatMul(self.difficulty_weight, _calculate_inverse_difficulty(suggestion))),
         RatMul(self.dependency_weight, _calculate_dependency_score(suggestion)))

RECURSIVE InsertBeforeEqual(_, _)
RECURSIVE InsertByScore(_, _)

\* x placed before the elements with an equal score
InsertBeforeEqual(x, q) ==
  IF q = <<>> THEN <<x>>
  ELSE IF RatLt(Head(q).priority_score, x.priority_score) \/ Head(q).priority_score = x.priority_score
       THEN <<x>> \o q
       ELSE <<Head(q)>> \o InsertBeforeEqual(x, Tail(q))

\* x placed into q, sorted by priority_score descending, after every element
\* whose score is not smaller: sorted() is stable, also with reverse=True
InsertByScore(x, q) ==
  IF q = <<>> THEN <<x>>
  ELSE IF RatLt(Head(q).priority_score, x.priority_score)
       THEN <<x>> \o q
       ELSE <<Head(q)>> \o InsertByScore(x, Tail(q))

\* prioritization.py 54-58
RECURSIVE SortedByScore(_)
SortedByScore(q) ==
  IF q = <<>> THEN <<>>
  ELSE InsertByScore(q[Len(q)], SortedByScore(SubSeq(q, 1, Len(q) - 1)))

\* prioritization.py 50-51
Scored(self, q) ==
  [k \in 1..Len(q) |-> [q[k] EXCEPT !.priority_score = _calculate_priority_score(self, q[k])]]

----------------------------------------------------------------------------
(* The inputs of the prioritizer *)

MaxSuggestions == 2

\* records as _extract_uncovered_bins and _extract_uncovered_crosses build them
SampleGroup == Covergroup(<<"g">>, 0)
SampleBin == Bin(<<"b">>, 0, UNCOVERED, 2)
SamplePoint(pct) == [Coverpoint(<<"p">>, 1) EXCEPT !.coverage_percentage = pct]
SampleCross(pct) ==
  CrossCoverage(<<"p", "x", "q">>, <<<<"p">>, <<"q">>>>, <<SampleBin>>, pct, 1, 0, 1)

SampleContexts ==
  {BinContext(SampleGroup, SamplePoint(<<0, 1>>), SampleBin),
   BinContext(SampleGroup, SamplePoint(<<50, 1>>), SampleBin),
   CrossContext(SampleGroup, SampleCross(<<50, 1>>), SampleBin),
   CrossContext(SampleGroup, SampleCross(<<150, 1>>), SampleBin)}

\* difficulty and dependencies of a suggestion
SampleEfforts ==
  {<<EASY, <<>>>>, <<MEDIUM, <<"d1">>>>, <<HARD, <<>>>>,
   <<VERY_HARD, <<"d1", "d2", "d3">>>>, <<UnknownLevel, <<>>>>}

SuggestionLists ==
  UNION {[1..n -> SampleContexts \X SampleEfforts] : n \in 0..MaxSuggestions}

\* the list of suggestion objects described by q
SuggestionsOf(q) ==
  [k \in 1..Len(q) |-> TestSuggestion(q[k][1], q[k][2][1], q[k][2][2], <<2, 1>>, k)]

\* weight triples in tenths: the defaults, all zero, one weight only,
\* unnormalized, and negative entries with a sum above, at and below zero
SuppliedWeights ==
  {<<5, 3, 2>>, <<0, 0, 0>>, <<10, 0, 0>>, <<0, 0, 10>>, <<20, 10, 10>>,
   <<2, -1, 0>>, <<1, -1, 0>>, <<-1, -1, -1>>}

\* Prioritizer(coverage_impact_weight, difficulty_weight, dependency_weight),
\* prioritization.py 14-37
Prioritizer__init__ ==
  /\ pc = "Prioritizer"
  /\ \E w \in SuppliedWeights :
       prioritizer' = Some(PrioritizerInit(Tenths(w[1]), Tenths(w[2]), Tenths(w[3])))
  /\ pc' = "prioritize"
  /\ UNCHANGED <<parse_vars, report, suggestions, sorted_suggestions, prediction>>

\* prioritize(suggestions), prioritization.py 39-60: the scores are stored in
\* the objects of the list given, and a new sorted list is returned
prioritize ==
  /\ pc = "prioritize"
  /\ suggestions' = Scored(prioritizer[1], suggestions)
  /\ sorted_suggestions' = Some(SortedByScore(suggestions'))
  /\ pc' = "prioritized"
  /\ UNCHANGED <<parse_vars, report, prioritizer, prediction>>

PrioInit ==
  /\ \E q \in SuggestionLists : suggestions = SuggestionsOf(q)
  /\ pc = "Prioritizer"
  /\ prioritizer = None
  /\ sorted_suggestions = None
  /\ prediction = None
  /\ report = None
  /\ lines = <<>>
  /\ design_name = None
  /\ overall_coverage = None
  /\ covergroups = <<>>
  /\ current_covergroup = None
  /\ current_coverpoint = None
  /\ i = 0
  /\ uncovered_bins = <<>>
  /\ uncovered_crosses = <<>>
  /\ visited = <<>>
  /\ absorbed = <<>>
  /\ opened = <<>>

PrioNext ==
  \/ Prioritizer__init__
  \/ prioritize

PrioSpec == PrioInit /\ [][PrioNext]_vars

----------------------------------------------------------------------------
(* CoverageClosurePredictor *)

\* coverage_prediction.py 99-104
_estimate_time_to_full_coverage(test_suggestions) ==
  LET RECURSIVE Sum(_)
      Sum(q) == IF q = <<>> THEN Zero ELSE RatAdd(Head(q).estimated_time_hours, Sum(Tail(q)))
  IN IF Len(test_suggestions) = 0 THEN Zero
     ELSE RatMul(Sum(test_suggestions), <<12, 10>>)

\* coverage_prediction.py 143-160
_calculate_difficulty_penalty(test_suggestions) ==
  LET difficulty_weights(s) ==
        CASE s.difficulty = EASY -> Tenths(1)
          [] s.difficulty = MEDIUM -> Tenths(3)
          [] s.difficulty = HARD -> Tenths(6)
          [] s.difficulty = VERY_HARD -> Tenths(9)
          [] OTHER -> Tenths(5)
      RECURSIVE Sum(_)
      Sum(q) == IF q = <<>> THEN Zero ELSE RatAdd(difficulty_weights(Head(q)), Sum(Tail(q)))
  IN IF Len(test_suggestions) = 0 THEN Zero
     ELSE RatQuot(Sum(test_suggestions), <<Len(test_suggestions), 1>>)

\* coverage_prediction.py 130-139, the value before the clamp of line 141
Likelihood(coverage_report, test_suggestions) ==
  LET total_uncovered ==
        Len(coverage_report.uncovered_bins) + Len(coverage_report.uncovered_crosses)
      suggestion_ratio ==
        RatMin(One, RatQuot(<<Len(test_suggestions), 1>>, <<total_uncovered, 1>>))
      difficulty_penalty == _calculate_difficulty_penalty(test_suggestions)
      current_coverage_factor == RatQuot(coverage_report.overall_coverage, <<100, 1>>)
  IN RatMul(RatMul(suggestion_ratio, RatSub(One, difficulty_penalty)),
            RatAdd(Tenths(5), RatMul(Tenths(5), current_coverage_factor)))

\* the likelihood returned without the clamp
_predict_100_percent_likelihood_unclamped(coverage_report, test_suggestions) ==
  LET total_uncovered ==
        Len(coverage_report.uncovered_bins) + Len(coverage_report.uncovered_crosses)
  IN IF total_uncovered = 0 THEN One
     ELSE IF Len(test_suggestions) = 0 THEN Zero
     ELSE Likelihood(coverage_report, test_suggestions)

\* coverage_prediction.py 106-141
_predict_100_percent_likelihood(coverage_report, test_suggestions) ==
  LET total_uncovered ==
        Len(coverage_report.uncovered_bins) + Len(coverage_report.uncovered_crosses)
  IN IF total_uncovered = 0 THEN One
     ELSE IF Len(test_suggestions) = 0 THEN Zero
     ELSE RatMin(One, RatMax(Zero, Likelihood(coverage_report, test_suggestions)))

\* coverage_prediction.py 179-181
uncovered_bin_names(coverage_report) ==
  {Get(coverage_report.uncovered_bins[k], "bin", <<>>) :
     k \in 1..Len(coverage_report.uncovered_bins)}

\* coverage_prediction.py 182-184
suggested_bin_names(test_suggestions) ==
  {Get(test_suggestions[k].uncovered_bin, "bin", <<>>) : k \in 1..Len(test_suggestions)}

\* every uncovered name counted as unsuggested
unsuggested_bins_all(coverage_report, test_suggestions) ==
  uncovered_bin_names(coverage_report)

\* coverage_prediction.py 186
unsuggested_bins(coverage_report, test_suggestions) ==
  uncovered_bin_names(coverage_report) \ suggested_bin_names(test_suggestions)

\* {**bin_info, 'reason': reason, 'severity': severity}
BlockingEntry(bin_info, reason, severity) ==
  [k \in DOMAIN bin_info \cup {"reason", "severity"} |->
     IF k = "reason" THEN reason ELSE IF k = "severity" THEN severity ELSE bin_info[k]]

NoSuggestion == "No test suggestion generated"
VeryHardManyDependencies == "Very hard test with multiple dependencies"

\* coverage_prediction.py 201-202 and 210: the first suggestion of the list
\* that names the bin, the only one the inner loop looks at
RECURSIVE FirstSuggestionOf(_, _)
FirstSuggestionOf(bin_name, test_suggestions) ==
  IF test_suggestions = <<>> THEN None
  ELSE IF /\ "bin" \in DOMAIN Head(test_suggestions).uncovered_bin
          /\ Head(test_suggestions).uncovered_bin.bin = bin_name
       THEN Some(Head(test_suggestions))
       ELSE FirstSuggestionOf(bin_name, Tail(test_suggestions))

\* the entries of one record when the inner loop goes through every
\* suggestion of the bin, one high entry for each that is VeryHard with 3 or
\* more dependencies
BlockingOfEverySuggestion(bin_info, unsuggested, test_suggestions) ==
  LET bin_name == Get(bin_info, "bin", <<>>)
      hard == SelectSeq(test_suggestions,
                        LAMBDA x : /\ "bin" \in DOMAIN x.uncovered_bin
                                   /\ x.uncovered_bin.bin = bin_name
                                   /\ x.difficulty = VERY_HARD
                                   /\ Len(x.dependencies) >= 3)
  IN (IF bin_name \in unsuggested
      THEN <<BlockingEntry(bin_info, NoSuggestion, "medium")>> ELSE <<>>)
     \o
     [k \in 1..Len(hard) |-> BlockingEntry(bin_info, VeryHardManyDependencies, "high")]

\* coverage_prediction.py 189-210: the entries of one record
BlockingOf(bin_info, unsuggested, test_suggestions) ==
  LET bin_name == Get(bin_info, "bin", <<>>)
      found == FirstSuggestionOf(bin_name, test_suggestions)
  IN (IF bin_name \in unsuggested
      THEN <<BlockingEntry(bin_info, NoSuggestion, "medium")>> ELSE <<>>)
     \o
     (IF /\ found /= None
         /\ found[1].difficulty = VERY_HARD
         /\ Len(found[1].dependencies) >= 3
      THEN <<BlockingEntry(bin_info, VeryHardManyDependencies, "high")>> ELSE <<>>)

\* an _identify_blocking_bins that returns at once when nothing was suggested
_identify_blocking_bins_of_suggestions(coverage_report, test_suggestions) ==
  IF test_suggestions = <<>> THEN <<>>
  ELSE Concat([k \in 1..Len(coverage_report.uncovered_bins) |->
                 BlockingOf(coverage_report.uncovered_bins[k],
                            unsuggested_bins(coverage_report, test_suggestions),
                            test_suggestions)])

\* coverage_prediction.py 162-212
_identify_blocking_bins(coverage_report, test_suggestions) ==
  Concat([k \in 1..Len(coverage_report.uncovered_bins) |->
            BlockingOf(coverage_report.uncovered_bins[k],
                       unsuggested_bins(coverage_report, test_suggestions),
                       test_suggestions)])

\* coverage_prediction.py 214-244
_predict_final_coverage(coverage_report, test_suggestions, blocking_bins) ==
  LET current_coverage == coverage_report.overall_coverage
      total_uncovered_bins ==
        Len(coverage_report.uncovered_bins) + Len(coverage_report.uncovered_crosses)
      coverable_bins == total_uncovered_bins - Len(blocking_bins)
      coverage_per_bin ==
        RatQuot(RatSub(<<100, 1>>, current_coverage), <<total_uncovered_bins, 1>>)
      predicted_gain == RatMul(<<coverable_bins, 1>>, coverage_per_bin)
  IN IF total_uncovered_bins = 0 THEN <<100, 1>>
     ELSE RatMin(<<100, 1>>, RatAdd(current_coverage, predicted_gain))

\* coverage_prediction.py 246-273
_determine_confidence(coverage_report, test_suggestions, blocking_bins) ==
  LET uncovered_count ==
        Len(coverage_report.uncovered_bins) + Len(coverage_report.uncovered_crosses)
      suggestion_ratio == RatQuot(<<Len(test_suggestions), 1>>, <<uncovered_count, 1>>)
      blocking_ratio == RatQuot(<<Len(blocking_bins), 1>>, <<uncovered_count, 1>>)
  IN IF uncovered_count = 0 THEN "high"
     ELSE IF /\ RatLe(Tenths(8), suggestion_ratio)
             /\ RatLe(blocking_ratio, Tenths(1))
             /\ RatLe(<<80, 1>>, coverage_report.overall_coverage)
          THEN "high"
     ELSE IF RatLe(Tenths(5), suggestion_ratio) /\ RatLe(blocking_ratio, Tenths(3))
          THEN "medium"
     ELSE "low"

\* coverage_prediction.py 15-22
CoveragePrediction(estimated_time, likelihood, blocking_bins, final_coverage, confidence) ==
  [estimated_time_to_100_percent_hours |-> estimated_time,
   likelihood_of_100_percent |-> likelihood,
   blocking_bins |-> blocking_bins,
   predicted_final_coverage |-> final_coverage,
   confidence_level |-> confidence]

\* predict(coverage_report, test_suggestions), coverage_prediction.py 32-84
predict ==
  /\ pc = "predict"
  /\ LET coverage_report == report[1]
         blocking_bins == _identify_blocking_bins(coverage_report, suggestions)
     IN prediction' =
          Some(CoveragePrediction(
                 _estimate_time_to_full_coverage(suggestions),
                 _predict_100_percent_likelihood(coverage_report, suggestions),
                 blocking_bins,
                 _predict_final_coverage(coverage_report, suggestions, blocking_bins),
                 _determine_confidence(coverage_report, suggestions, blocking_bins)))
  /\ pc' = "predicted"
  /\ UNCHANGED <<parse_vars, report, prioritizer, suggestions, sorted_suggestions>>

(* The inputs of the predictor *)

MaxUncovered == 2

BinNames == {<<"a">>, <<"b">>}

UncoveredNameLists == UNION {[1..n -> BinNames] : n \in 0..MaxUncovered}

\* one covergroup with a coverpoint of one uncovered bin for each name, and
\* ncross crosses of one uncovered bin
TreeOf(names, ncross) ==
  <<[Covergroup(<<"g">>, 0) EXCEPT
       !.coverpoints =
          [k \in 1..Len(names) |->
             [Coverpoint(<<"p">>, 2 * k - 1) EXCEPT
                !.bins = <<Bin(names[k], 0, UNCOVERED, 2 * k)>>, !.total_bins = 1]],
       !.cross_coverage =
          [k \in 1..ncross |->
             CrossCoverage(<<"p", "x", "q">>, <<<<"p">>, <<"q">>>>,
                           <<Bin(<<"a">>, 0, UNCOVERED, 2 * Len(names) + 2 * k)>>,
                           Zero, 1, 0, 2 * Len(names) + 2 * k - 1)],
       !.total_bins = Len(names) + ncross]>>

\* the report parse returns for such a tree, parser.py 94-102
ReportOf(names, ncross, overall) ==
  [design_name |-> UnknownDesign,
   overall_coverage |-> overall,
   covergroups |-> TreeOf(names, ncross),
   uncovered_bins |-> ExtractUncoveredBins(TreeOf(names, ncross)),
   uncovered_crosses |-> ExtractUncoveredCrosses(TreeOf(names, ncross))]

\* reported overall coverage: none, partial, full, and above 100
OverallCoverages == {<<0, 1>>, <<60, 1>>, <<100, 1>>, <<150, 1>>}

SuggestedContexts ==
  {BinContext(SampleGroup, SamplePoint(Zero), Bin(n, 0, UNCOVERED, 2)) :
     n \in BinNames \cup {<<"c">>}}

SuggestedEfforts ==
  {<<EASY, <<>>>>, <<HARD, <<"d1", "d2", "d3">>>>, <<VERY_HARD, <<"d1", "d2">>>>,
   <<VERY_HARD, <<"d1", "d2", "d3">>>>, <<UnknownLevel, <<>>>>}

PredSuggestionLists ==
  UNION {[1..n -> SuggestedContexts \X SuggestedEfforts] : n \in 0..MaxSuggestions}

\* the predictor reads the report and the suggestions only
PredInit ==
  /\ \E names \in UncoveredNameLists, ncross \in 0..1, overall \in OverallCoverages :
       /\ report = Some(ReportOf(names, ncross, overall))
       /\ design_name = Some(UnknownDesign)
       /\ overall_coverage = Some(overall)
       /\ covergroups = TreeOf(names, ncross)
       /\ uncovered_bins = report[1].uncovered_bins
       /\ uncovered_crosses = report[1].uncovered_crosses
  /\ \E q \in PredSuggestionLists : suggestions = SuggestionsOf(q)
  /\ pc = "predict"
  /\ prioritizer = None
  /\ sorted_suggestions = None
  /\ prediction = None
  /\ lines = <<>>
  /\ current_covergroup = None
  /\ current_coverpoint = None
  /\ i = 0
  /\ visited = <<>>
  /\ absorbed = <<>>
  /\ opened = <<>>

PredNext == predict

PredSpec == PredInit /\ [][PredNext]_vars

Prioritized == pc = "prioritized"

\* the weights given to the constructor
GivenWeights == prioritizer[1].given

GivenTotal == RatAdd(RatAdd(GivenWeights[1], GivenWeights[2]), GivenWeights[3])

Scores == {suggestions[k].priority_score : k \in 1..Len(suggestions)}

InUnitInterval(r) == RatLe(Zero, r) /\ RatLe(r, One)

StoredWeights ==
  <<prioritizer[1].coverage_impact_weight, prioritizer[1].difficulty_weight,
    prioritizer[1].dependency_weight>>

----------------------------------------------------------------------------
(* The prioritizer *)

\* C11: prioritize returns a permutation of the list it was given (every
\* object once, nothing added or dropped, the empty list included), ordered
\* by priority_score non-increasing, and objects with equal scores keep the
\* order they had in the input.
C11_StableSortedPermutation ==
  Prioritized =>
    LET out == sorted_suggestions[1]
    IN /\ Len(out) = Len(suggestions)
       /\ {out[k].id : k \in 1..Len(out)} = 1..Len(suggestions)
       /\ \A k \in 1..Len(out) : out[k] = suggestions[out[k].id]
       /\ \A a, b \in 1..Len(out) :
            a < b =>
              /\ RatLe(out[b].priority_score, out[a].priority_score)
              /\ out[a].priority_score = out[b].priority_score => out[a].id < out[b].id

\* two suggestions were given and the second one is returned first
C11_Witness ==
  /\ Prioritized
  /\ Len(suggestions) = 2
  /\ sorted_suggestions[1][1].id = 2
  /\ RatLt(suggestions[1].priority_score, suggestions[2].priority_score)

\* C12 as stated: whenever the supplied weights sum to more than 0, every
\* priority_score lies in [0, 1].
C12_ScoreInUnitInterval ==
  (Prioritized /\ RatLt(Zero, GivenTotal)) => \A r \in Scores : InUnitInterval(r)

\* C12 amended: whenever none of the supplied weights is negative and their
\* sum is more than 0, every priority_score lies in [0, 1].
C12_ScoreInUnitIntervalNonNegative ==
  (/\ Prioritized
   /\ RatLt(Zero, GivenTotal)
   /\ \A k \in 1..3 : RatLe(Zero, GivenWeights[k]))
    => \A r \in Scores : InUnitInterval(r)

\* weights that sum to 4 were given, and a cross reported above 100% and an
\* uncovered bin of an empty coverpoint were scored
C12_Witness ==
  /\ Prioritized
  /\ GivenWeights = <<<<2, 1>>, <<1, 1>>, <<1, 1>>>>
  /\ Len(suggestions) = 2
  /\ suggestions[1].uncovered_bin.coverage_percentage = <<150, 1>>
  /\ suggestions[2].uncovered_bin.coverage_percentage = <<0, 1>>
  /\ suggestions[2].difficulty = EASY
  /\ suggestions[2].priority_score = One

\* C13 as stated: a positive sum divides the supplied weights by it; any
\* other sum leaves three stored weights of 0 and every priority_score 0.
C13_WeightsNormalizedOrZero ==
  (prioritizer /= None) =>
    IF RatLt(Zero, GivenTotal)
    THEN /\ \A k \in 1..3 : StoredWeights[k] = RatQuot(GivenWeights[k], GivenTotal)
         /\ RatAdd(RatAdd(StoredWeights[1], StoredWeights[2]), StoredWeights[3]) = One
    ELSE /\ StoredWeights = <<Zero, Zero, Zero>>
         /\ Prioritized => \A r \in Scores : r = Zero

\* C13 amended: a positive sum divides the supplied weights by it; any other
\* sum leaves the supplied weights stored as they are, which is three zeros
\* and every priority_score 0 when none of them is negative.
C13_WeightsNormalizedOrKept ==
  (prioritizer /= None) =>
    IF RatLt(Zero, GivenTotal)
    THEN /\ \A k \in 1..3 : StoredWeights[k] = RatQuot(GivenWeights[k], GivenTotal)
         /\ RatAdd(RatAdd(StoredWeights[1], StoredWeights[2]), StoredWeights[3]) = One
    ELSE /\ StoredWeights = GivenWeights
         /\ (\A k \in 1..3 : RatLe(Zero, GivenWeights[k])) =>
              /\ StoredWeights = <<Zero, Zero, Zero>>
              /\ Prioritized => \A r \in Scores : r = Zero

\* negative weights with a sum of 0 were given and two suggestions scored
C13_Witness ==
  /\ Prioritized
  /\ GivenWeights = <<<<1, 10>>, <<-1, 10>>, <<0, 1>>>>
  /\ StoredWeights = GivenWeights
  /\ Len(suggestions) = 2
  /\ \E r \in Scores : r /= Zero

----------------------------------------------------------------------------
(* The predictor *)

Predicted == pc = "predicted"

Blocking == prediction[1].blocking_bins

TotalUncovered == Len(report[1].uncovered_bins) + Len(report[1].uncovered_crosses)

\* the positions in blocking_bins of the entries made from the record rec
EntriesOf(rec) == {k \in 1..Len(Blocking) : Blocking[k].line = rec.line}

EntriesWith(rec, severity) == {k \in EntriesOf(rec) : Blocking[k].severity = severity}

UncoveredRecords ==
  {report[1].uncovered_bins[k] : k \in 1..Len(report[1].uncovered_bins)}

\* the positions of the suggestions that reference the bin name
SuggestionsFor(bin_name) ==
  {k \in 1..Len(suggestions) : suggestions[k].uncovered_bin.bin = bin_name}

VeryHardWithDependencies(s) == s.difficulty = VERY_HARD /\ Len(s.dependencies) >= 3

\* C14: the likelihood is exactly 1 when nothing is uncovered, whatever the
\* suggestions, exactly 0 when something is uncovered and nothing suggested,
\* and within [0, 1] in every other case.
C14_LikelihoodEdges ==
  Predicted =>
    LET likelihood == prediction[1].likelihood_of_100_percent
    IN /\ TotalUncovered = 0 => likelihood = One
       /\ (TotalUncovered > 0 /\ suggestions = <<>>) => likelihood = Zero
       /\ InUnitInterval(likelihood)

\* something is uncovered, as many easy tests are suggested, the report says
\* 150%, and the product of the factors, 1.125, is returned as 1
C14_Witness ==
  /\ Predicted
  /\ TotalUncovered = 2
  /\ Len(suggestions) = 2
  /\ \A k \in 1..2 : suggestions[k].difficulty = EASY
  /\ report[1].overall_coverage = <<150, 1>>
  /\ Likelihood(report[1], suggestions) = <<9, 8>>
  /\ prediction[1].likelihood_of_100_percent = One

\* C15: every record of uncovered_bins whose bin name no suggestion
\* references has exactly one entry in blocking_bins, the record with
\* severity medium and the reason "No test suggestion generated"; with no
\* suggestion and one uncovered bin blocking_bins is that one entry and the
\* likelihood is 0.
C15_UnsuggestedIsMedium ==
  Predicted =>
    /\ \A rec \in UncoveredRecords :
         SuggestionsFor(rec.bin) = {} =>
           /\ Cardinality(EntriesOf(rec)) = 1
           /\ \A k \in EntriesOf(rec) : Blocking[k] = BlockingEntry(rec, NoSuggestion, "medium")
    /\ (suggestions = <<>> /\ Len(report[1].uncovered_bins) = 1) =>
         /\ Len(Blocking) = 1
         /\ Blocking[1].severity = "medium"
         /\ Blocking[1].reason = NoSuggestion
         /\ prediction[1].likelihood_of_100_percent = Zero

\* two uncovered bins of the same name, an uncovered cross, and one
\* suggestion, for another bin: two medium entries
C15_Witness ==
  /\ Predicted
  /\ Len(report[1].uncovered_bins) = 2
  /\ report[1].uncovered_bins[1].bin = report[1].uncovered_bins[2].bin
  /\ Len(report[1].uncovered_crosses) = 1
  /\ Len(suggestions) = 1
  /\ SuggestionsFor(report[1].uncovered_bins[1].bin) = {}
  /\ Len(Blocking) = 2

\* the records of uncovered_bins whose only suggestion is VeryHard with 3 or
\* more dependencies
OnlyVeryHard ==
  {rec \in UncoveredRecords :
     /\ Cardinality(SuggestionsFor(rec.bin)) = 1
     /\ \A k \in SuggestionsFor(rec.bin) : VeryHardWithDependencies(suggestions[k])}

\* C16 as stated: an uncovered bin whose only suggestion is VeryHard with 3
\* or more dependencies has two entries in blocking_bins, one of severity
\* medium and one of severity high.
C16_ListedUnderBothReasons ==
  Predicted =>
    \A rec \in OnlyVeryHard :
      /\ Cardinality(EntriesWith(rec, "medium")) = 1
      /\ Cardinality(EntriesWith(rec, "high")) = 1

\* C16 amended: an uncovered bin whose only suggestion is VeryHard with 3 or
\* more dependencies has one entry in blocking_bins, of severity high with
\* the reason "Very hard test with multiple dependencies", and none of
\* severity medium.
C16_ListedOnceAsHigh ==
  Predicted =>
    \A rec \in OnlyVeryHard :
      /\ Cardinality(EntriesOf(rec)) = 1
      /\ \A k \in EntriesOf(rec) :
           Blocking[k] = BlockingEntry(rec, VeryHardManyDependencies, "high")

\* a bin with its VeryHard suggestion next to a bin nothing is suggested for
C16_Witness ==
  /\ Predicted
  /\ Len(report[1].uncovered_bins) = 2
  /\ Len(suggestions) = 1
  /\ report[1].uncovered_bins[2] \in OnlyVeryHard
  /\ Len(Blocking) = 2
  /\ Blocking[1].severity = "medium"
  /\ Blocking[2].severity = "high"

\* C17: for every suggestion that is VeryHard with 3 or more dependencies
\* and references an uncovered bin, blocking_bins has an entry of severity
\* high for that bin, wherever the suggestion stands in the list and whatever
\* else references the bin.
C17_EveryVeryHardIsHigh ==
  Predicted =>
    \A k \in 1..Len(suggestions) :
      (/\ VeryHardWithDependencies(suggestions[k])
       /\ suggestions[k].uncovered_bin.bin \in uncovered_bin_names(report[1]))
        => \E e \in 1..Len(Blocking) :
             /\ Blocking[e].bin = suggestions[k].uncovered_bin.bin
             /\ Blocking[e].severity = "high"

----------------------------------------------------------------------------
(* Crosses and the hierarchy *)

\* the crosses of the returned report
ReportCrosses ==
  UNION {{report[1].covergroups[g].cross_coverage[x] :
            x \in 1..Len(report[1].covergroups[g].cross_coverage)} :
           g \in 1..Len(report[1].covergroups)}

\* the number written in the Cross header on line k
HeaderPercentage(k) == float(lines[k + 1].cross[1].pct)[1]

\* C18 as stated: every cross of the returned report carries the triad of
\* its bins: total_bins = len(bins), covered_bins = number of Covered bins,
\* coverage_percentage = 100*covered/total (0 without bins).
C18_CrossTriad ==
  Done => \A X \in ReportCrosses : TriadOf(X.bins, X)

\* C18 amended: every cross of the returned report has total_bins =
\* len(bins) and covered_bins = number of Covered bins, and its
\* coverage_percentage is the number written in its Cross header.
C18_CrossCountsAndHeaderPercentage ==
  Done =>
    \A X \in ReportCrosses :
      /\ X.total_bins = Len(X.bins)
      /\ X.covered_bins = Cardinality({k \in 1..Len(X.bins) : X.bins[k].status = COVERED})
      /\ X.coverage_percentage = HeaderPercentage(X.line)

\* a cross is returned with two bins, both Covered, and the 50 of its header
C18_Witness ==
  /\ Done
  /\ \E X \in ReportCrosses :
       /\ X.total_bins = 2
       /\ X.covered_bins = 2
       /\ X.coverage_percentage = <<50, 1>>

\* the outer loop is about to read a line
Reading == InLoop /\ i < Len(lines)

\* the number of coverpoints, of coverpoint bins and of crosses built so far,
\* the open coverpoint included
CountPoints(gs, cp) ==
  Len(Concat([g \in 1..Len(gs) |-> gs[g].coverpoints])) + (IF cp = None THEN 0 ELSE 1)

CountPointBins(gs, cp) ==
  Len(Concat([g \in 1..Len(gs) |-> Concat([c \in 1..Len(gs[g].coverpoints) |->
                                             gs[g].coverpoints[c].bins])]))
    + (IF cp = None THEN 0 ELSE Len(cp[1].bins))

CountCrosses(gs) == Len(Concat([g \in 1..Len(gs) |-> gs[g].cross_coverage]))

GroupsOf(gs, cg) == gs \o (IF cg = None THEN <<>> ELSE <<cg[1]>>)

\* the three guards, for the step that reads the line under the cursor
HierarchyGuards ==
  Reading =>
    LET line == lines[i + 1]
        before == GroupsOf(covergroups, current_covergroup)
        after == GroupsOf(covergroups', current_covergroup')
    IN /\ (/\ coverpoint_pattern(line) /= None
           /\ covergroup_pattern(line) = None
           /\ current_covergroup = None)
          => /\ current_coverpoint' = None
             /\ CountPoints(after, current_coverpoint') = 0
       /\ (/\ bin_pattern(line) /= None
           /\ covergroup_pattern(line) = None
           /\ coverpoint_pattern(line) = None
           /\ current_coverpoint = None)
          => /\ current_coverpoint' = None
             /\ CountPointBins(after, current_coverpoint')
                  = CountPointBins(before, current_coverpoint)
             /\ after = before
       /\ (/\ cross_pattern(line) /= None
           /\ covergroup_pattern(line) = None
           /\ current_covergroup = None)
          => /\ current_covergroup' = None
             /\ CountCrosses(after) = 0
             /\ i' = i + 1

PointHeadersUpTo(k) == {n \in Indices : n <= k /\ coverpoint_pattern(lines[n + 1]) /= None}

GroupHeadersUpTo(k) == {n \in Indices : n <= k /\ covergroup_pattern(lines[n + 1]) /= None}

\* every bin of a coverpoint of the returned report is under the last
\* Coverpoint header before its line, in the covergroup of the last
\* Covergroup header before its line, and that header is not after the
\* Coverpoint header
BinsUnderLastHeader ==
  \A g \in 1..Len(report[1].covergroups) :
    \A c \in 1..Len(report[1].covergroups[g].coverpoints) :
      LET cg == report[1].covergroups[g]
          cp == cg.coverpoints[c]
      IN /\ cg.line <= cp.line
         /\ \A b \in 1..Len(cp.bins) :
              /\ cp.line = Max(PointHeadersUpTo(cp.bins[b].line))
              /\ cg.line = Max(GroupHeadersUpTo(cp.bins[b].line))

\* C19: a Coverpoint header read with no covergroup open creates no
\* coverpoint, a Bin line read with no coverpoint open adds no bin anywhere,
\* a Cross header read with no covergroup open creates no cross; in the
\* returned report every coverpoint bin belongs to the most recent Coverpoint
\* header before it, within the same covergroup.
C19_HierarchyGuards ==
  /\ [][HierarchyGuards]_vars
  /\ [](Done => BinsUnderLastHeader)

\* a Bin line was read after a Covergroup header and before its first
\* Coverpoint header, and the report has no bin from it but has the bin that
\* follows the Coverpoint header
C19_Witness ==
  /\ Done
  /\ Len(lines) = 4
  /\ covergroup_pattern(lines[1]) /= None
  /\ bin_pattern(lines[2]) /= None
  /\ coverpoint_pattern(lines[3]) /= None
  /\ bin_pattern(lines[4]) /= None
  /\ visited = <<0, 1, 2, 3>>
  /\ Len(report[1].covergroups) = 1
  /\ Len(report[1].covergroups[1].coverpoints) = 1
  /\ BinLines(report[1].covergroups[1].coverpoints[1].bins) = <<3>>

\* line k is a header of any kind
IsAnyHeader(k) == IsHeader(k) \/ cross_pattern(lines[k + 1]) /= None

\* the first header of any kind after line h, len(lines) if none
NextHeader(h) == Min({j \in Indices : j > h /\ IsAnyHeader(j)} \cup {Len(lines)})

\* C20: in the returned report every Cross header that follows a Covergroup
\* header has exactly one cross, in the covergroup open at that line, whose
\* bins are the bin lines between it and the next header of any kind; two
\* Cross headers in a row give two crosses.
C20_OneCrossPerHeader ==
  Done =>
    \A k \in Indices :
      (/\ cross_pattern(lines[k + 1]) /= None
       /\ covergroup_pattern(lines[k + 1]) = None
       /\ GroupHeadersUpTo(k) /= {})
        => LET G == report[1].covergroups
               places == {gx \in {<<g, x>> : g \in 1..Len(G), x \in 1..Len(lines)} :
                            /\ gx[2] <= Len(G[gx[1]].cross_coverage)
                            /\ G[gx[1]].cross_coverage[gx[2]].line = k}
           IN /\ Cardinality(places) = 1
              /\ \A gx \in places :
                   /\ G[gx[1]].line = Max(GroupHeadersUpTo(k))
                   /\ {G[gx[1]].cross_coverage[gx[2]].bins[b].line :
                         b \in 1..Len(G[gx[1]].cross_coverage[gx[2]].bins)}
                        = {j \in Indices : /\ k < j
                                           /\ j < NextHeader(k)
                                           /\ bin_pattern(lines[j + 1]) /= None}

----------------------------------------------------------------------------
(* The size of blocking_bins and the predicted final coverage *)

\* C21: blocking_bins has at most one entry for each record of
\* uncovered_bins and none for anything else, so it is no longer than
\* uncovered_bins, which is no longer than the number of uncovered items,
\* and the number of coverable items is not negative; when the reported
\* overall coverage is between 0 and 100 the predicted final coverage is
\* between the overall coverage and 100, and it is exactly 100 when nothing
\* is uncovered.
C21_BlockingBoundsFinalCoverage ==
  Predicted =>
    LET overall == report[1].overall_coverage
        final == prediction[1].predicted_final_coverage
    IN /\ \A rec \in UncoveredRecords : Cardinality(EntriesOf(rec)) <= 1
       /\ \A k \in 1..Len(Blocking) : \E rec \in UncoveredRecords : k \in EntriesOf(rec)
       /\ Len(Blocking) <= Len(report[1].uncovered_bins)
       /\ Len(report[1].uncovered_bins) <= TotalUncovered
       /\ TotalUncovered - Len(Blocking) >= 0
       /\ (RatLe(Zero, overall) /\ RatLe(overall, <<100, 1>>)) =>
            /\ RatLe(overall, final)
            /\ RatLe(final, <<100, 1>>)
       /\ TotalUncovered = 0 => final = <<100, 1>>

\* two uncovered bins and an uncovered cross at 60%: the first bin has two
\* VeryHard suggestions with 3 dependencies and one high entry, the second
\* has no suggestion and one medium entry, and the one coverable item of
\* three takes the prediction a third of the way to 100
C21_Witness ==
  /\ Predicted
  /\ Len(report[1].uncovered_bins) = 2
  /\ Len(report[1].uncovered_crosses) = 1
  /\ report[1].overall_coverage = <<60, 1>>
  /\ Len(suggestions) = 2
  /\ \A k \in 1..2 :
       /\ suggestions[k].uncovered_bin.bin = report[1].uncovered_bins[1].bin
       /\ VeryHardWithDependencies(suggestions[k])
  /\ report[1].uncovered_bins[2].bin /= report[1].uncovered_bins[1].bin
  /\ Len(Blocking) = 2
  /\ Blocking[1].severity = "high"
  /\ Blocking[2].severity = "medium"
  /\ prediction[1].predicted_final_coverage = <<220, 3>>

====
